---- MODULE Spec2Model ----
(***************************************************************************)
(* MoviesGPT: the recommendation response pipeline of GeminiService        *)
(* (withRetry, extractJSON, sendMessage, getColdStart, getMovieSynopsis),  *)
(* historyService.addToHistory, and the App handlers that call them        *)
(* (initApp, handleSend).                                                  *)
(*                                                                         *)
(* Texts are sequences of lexical tokens: "{" and "}" are the braces of    *)
(* the outermost level, "S" is a "summary":"..." member, "R" a             *)
(* "recommendations":[{..}] member (MemberTokens lists the others), "n"    *)
(* the literal null, "F" a code fence, "j" the json tag, " " a white space *)
(* character, "x" a character of prose and "." a full stop.  The length of *)
(* a text is its number of tokens.  Failure messages are sequences of      *)
(* words.                                                                  *)
(* JavaScript values are tagged records, so that undefined, null, strings  *)
(* and arrays stay distinguishable.                                        *)
(***************************************************************************)
EXTENDS Integers, Sequences, FiniteSets, TLC

VARIABLES
    chat,                    \* GeminiService.chat: 0 is null, k > 0 the k-th handle created
    calls,                   \* number of sendMessage calls begun on the service
    pc,                      \* position of the request in flight
    caller,                  \* who awaits the service: "direct", "initApp", "handleSend"
    entry,                   \* entry point called: "withRetry", "sendMessage", "getColdStart",
                             \* "getMovieSynopsis", "extractJSON", "addToHistory",
                             \* "watchlistService"
    lang,                    \* the language argument of the request in flight
    args,                    \* the retries and delay that withRetry activation was called with
    rt,                      \* withRetry activation around chat.sendMessage, or around the
                             \* operation when withRetry is called directly
    ort,                     \* withRetry activation of getColdStart, around sendMessage
    hist,                    \* withRetry called directly, and getMovieSynopsis: status codes
                             \* of the settled invocations or requests, in order (200 = success)
    last,                    \* the most recent settlement of the operation
    outcome,                 \* settlement of the promise the entry point returned
    isLoading,               \* App state
    hasInitializationError,  \* App state
    messages,                \* App state
    recommendations,         \* App state
    language,                \* App state
    input,                   \* App state: the chat input's text
    viewMode,                \* App state
    sortBy,                  \* App state
    filterType,              \* App state
    filterDecade,            \* App state
    filterGenre,             \* App state
    filterIndustry,          \* App state
    history,                 \* localStorage: the stored history list of the guest key
    now,                     \* Date.now() as the last addToHistory call read it
    adds,                    \* number of addToHistory calls made in this run
    query,                   \* the query argument of the last addToHistory call
    rawText,                 \* extractJSON called directly: its argument
    extracted,               \* extractJSON called directly: its return value
    mounted,                 \* the mount effect has run
    sends,                   \* number of handleSend requests issued
    storage,                 \* localStorage: the item stored under each watchlist key
    user,                    \* AuthContext: the signed-in user, or Null
    watchlist,               \* App state
    wcall,                   \* the last addToWatchlist or removeFromWatchlist call
    movie,                   \* MovieCard prop
    inWatchlist,             \* MovieCard state
    synopsis,                \* MovieCard state: the text, and the effect run whose
                             \* request produced it (0: no request did)
    loadingSynopsis,         \* MovieCard state
    requests,                \* MovieCard: the synopsis effect runs whose request is outstanding
    effectRun,               \* MovieCard: number of runs of the synopsis effect so far
    cardMounted              \* the MovieCard is mounted

viewVars == <<viewMode, sortBy, filterType, filterDecade, filterGenre, filterIndustry>>

storeVars == <<history, now, adds, query>>

extractVars == <<rawText, extracted>>

watchVars == <<storage, user, watchlist, wcall>>

cardVars == <<movie, inWatchlist, synopsis, loadingSynopsis, requests, effectRun,
              cardMounted>>

partVars == <<watchVars, cardVars>>

\* Everything outside the service and its request in flight.
appVars == <<isLoading, hasInitializationError, messages, recommendations,
             language, input, viewVars, storeVars, extractVars, partVars,
             mounted, sends>>

vars == <<chat, calls, pc, caller, entry, lang, args, rt, ort, hist, last, outcome,
          appVars>>

(***************************************************************************)
(* Bounds of the model.                                                    *)
(***************************************************************************)
MaxRetries == 3     \* largest retry budget handed to withRetry directly
MaxTextLen == 4     \* longest model text, in tokens
MaxSends == 2       \* handleSend requests per run
MaxCalls == 2       \* sendMessage and getColdStart calls made directly per run
MaxChunks == 3      \* longest list of grounding chunks
MaxRawLen == 5      \* longest text handed to extractJSON directly, in tokens
MaxRuns == 3        \* runs of a card's synopsis effect per run of the model
MaxMovies == 3      \* items of the list displayMovies is computed from
MaxAdds == 3        \* addToHistory calls made directly per run

(***************************************************************************)
(* Program constants.                                                      *)
(***************************************************************************)
DefaultRetries == 2
DefaultDelay == 1000
SummaryLimit == 500
HistoryLimit == 20

(***************************************************************************)
(* JavaScript values.                                                      *)
(***************************************************************************)
Undefined == [t |-> "undefined"]
Null == [t |-> "null"]
Str(s) == [t |-> "string", v |-> s]
Arr(s) == [t |-> "array", v |-> s]

Resolved(v) == [kind |-> "resolved", value |-> v]
Rejected(e) == [kind |-> "rejected", value |-> e]
Pending == [kind |-> "pending"]

Languages == {"English", "Hindi", "Marathi", "Spanish", "French"}

\* A language string outside the Language union, as an untyped caller can pass.
OtherLanguage == "German"

\* types.ts:3-20, the fields the model reads: title, year, synopsis (Undefined
\* when absent), type, industry, language and genres.
Movie(title, year, syn, type, industry, language0, genres) ==
    [title |-> title, year |-> year, synopsis |-> syn, type |-> type,
     industry |-> industry, language |-> language0, genres |-> genres]

(***************************************************************************)
(* Failures: an optional status (0 = no status property) and a message.    *)
(***************************************************************************)
Statuses == {0, 429, 500, 503}

Messages == { <<>>, <<"x">>, <<"fetch failed">>, <<"SAFETY">>, <<"x", "BLOCKED">>,
              <<"fetch failed", "SAFETY">> }

Failures == [status : Statuses, message : Messages]

Err(msg) == [status |-> 0, message |-> <<msg>>]

\* String.prototype.includes on a message; an absent message is falsy.
Includes(message, marker) == \E i \in DOMAIN message : message[i] = marker

(***************************************************************************)
(* withRetry (geminiService.ts:111-124).  An activation holds the          *)
(* remaining retries and the current delay; calls counts the invocations   *)
(* of the operation and waits lists the delays slept, in order.            *)
(***************************************************************************)
isRetryableAlways(error) == TRUE

isRetryable(error) ==
    \/ error.status = 503
    \/ error.status = 429
    \/ Includes(error.message, "fetch failed")

ShouldRetryNoBudget(retries, error) == isRetryable(error)

ShouldRetry(retries, error) == retries > 0 /\ isRetryable(error)

NewActivation(retries, delay) ==
    [retries |-> retries, delay |-> delay, calls |-> 0, waits |-> <<>>]

\* operation() is invoked.
Invoke(a) == [a EXCEPT !.calls = @ + 1]

RecurseSameDelay(a) ==
    Invoke([a EXCEPT !.retries = @ - 1, !.waits = Append(@, a.delay)])

\* The timer of line 119 fired: withRetry(operation, retries - 1, delay * 2).
Recurse(a) ==
    Invoke([a EXCEPT !.retries = @ - 1,
                     !.delay = @ * 2,
                     !.waits = Append(@, a.delay)])

RethrowWrapped(error) == Rejected(Err("Operation failed after retries"))

\* throw error (line 122).
Rethrow(error) == Rejected(error)

(***************************************************************************)
(* extractJSON (geminiService.ts:90-108).  Indices are JavaScript's:       *)
(* 0-based, -1 for "not found".                                            *)
(***************************************************************************)
RECURSIVE TrimStart(_)
TrimStart(s) == IF s # <<>> /\ Head(s) = " " THEN TrimStart(Tail(s)) ELSE s

RECURSIVE TrimEnd(_)
TrimEnd(s) ==
    IF s # <<>> /\ s[Len(s)] = " " THEN TrimEnd(SubSeq(s, 1, Len(s) - 1)) ELSE s

trim(s) == TrimEnd(TrimStart(s))

startsWith(s, p) == Len(s) >= Len(p) /\ SubSeq(s, 1, Len(p)) = p

\* text.replace(/^p/, ''): the prefix p is removed
StripStart(s, p) == IF startsWith(s, p) THEN SubSeq(s, Len(p) + 1, Len(s)) ELSE s

StripFenceEndNever(s) == s

\* text.replace(/<fence>$/, ''): a fence at the very end is removed
StripFenceEnd(s) ==
    IF s # <<>> /\ s[Len(s)] = "F" THEN SubSeq(s, 1, Len(s) - 1) ELSE s

indexOf(s, c) ==
    IF \E i \in 1..Len(s) : s[i] = c
    THEN (CHOOSE i \in 1..Len(s) : s[i] = c /\ \A j \in 1..(i - 1) : s[j] # c) - 1
    ELSE -1

lastIndexOf(s, c) ==
    IF \E i \in 1..Len(s) : s[i] = c
    THEN (CHOOSE i \in 1..Len(s) : s[i] = c /\ \A j \in (i + 1)..Len(s) : s[j] # c) - 1
    ELSE -1

\* String.prototype.substring(from, to) for 0 <= from <= to.
substring(s, from, to) == SubSeq(s, from + 1, IF to > Len(s) THEN Len(s) ELSE to)

extractJSONExclusiveEnd(raw) ==
    LET text0 == trim(raw)
        text == IF startsWith(text0, <<"F", "j">>)
                THEN StripFenceEnd(StripStart(text0, <<"F", "j">>))
                ELSE IF startsWith(text0, <<"F">>)
                     THEN StripFenceEnd(StripStart(text0, <<"F">>))
                     ELSE text0
        start == indexOf(text, "{")
        end == lastIndexOf(text, "}")
    IN  IF start # -1 /\ end # -1 /\ end > start
        THEN substring(text, start, end)
        ELSE text

extractJSON(raw) ==
    LET text0 == trim(raw)
        text == IF startsWith(text0, <<"F", "j">>)
                THEN StripFenceEnd(StripStart(text0, <<"F", "j">>))
                ELSE IF startsWith(text0, <<"F">>)
                     THEN StripFenceEnd(StripStart(text0, <<"F">>))
                     ELSE text0
        start == indexOf(text, "{")
        end == lastIndexOf(text, "}")
    IN  IF start # -1 /\ end # -1 /\ end > start
        THEN substring(text, start, end + 1)
        ELSE text

(***************************************************************************)
(* JSON.parse on token texts (geminiService.ts:156).  White space between  *)
(* tokens is insignificant.  An object is "{" members "}"; a repeated      *)
(* member is legal JSON.  The literal null parses to null; everything else *)
(* is a SyntaxError.                                                       *)
(***************************************************************************)
\* "S" and "S0" are summary members ("Here you go" and the empty string),
\* "R" and "R0" recommendations members (one item titled X, and no item),
\* "Q" a clarifyingQuestions member and "Z" a sources member.
MemberTokens == {"S", "S0", "R", "R0", "Q", "Z"}

SummaryText == <<"Here", "you", "go">>

RecommendationItems == <<"X">>

MemberKey(c) ==
    CASE c \in {"S", "S0"} -> "summary"
      [] c \in {"R", "R0"} -> "recommendations"
      [] c = "Q" -> "clarifyingQuestions"
      [] c = "Z" -> "sources"

MemberValue(c) ==
    CASE c = "S" -> Str(SummaryText)
      [] c = "S0" -> Str(<<>>)
      [] c = "R" -> Arr(RecommendationItems)
      [] c = "R0" -> Arr(<<>>)
      [] c = "Q" -> Arr(<<"q">>)
      [] c = "Z" -> Arr(<<[uri |-> "z", title |-> "Z"]>>)

NoSpace(s) == SelectSeq(s, LAMBDA c : c # " ")

IsObjectText(s) ==
    /\ Len(s) >= 2
    /\ s[1] = "{"
    /\ s[Len(s)] = "}"
    /\ \A i \in 2..(Len(s) - 1) : s[i] \in MemberTokens

\* The value of a key of the parsed object: the last member of that key wins.
Property(s, key) ==
    LET at == {i \in DOMAIN s : s[i] \in MemberTokens /\ MemberKey(s[i]) = key}
    IN  IF at = {} THEN Undefined
        ELSE MemberValue(s[CHOOSE i \in at : \A k \in at : k <= i])

ObjectOfKnownKeys(s) ==
    [t |-> "object",
     summary |-> Property(s, "summary"),
     clarifyingQuestions |-> Undefined,
     recommendations |-> Property(s, "recommendations"),
     sources |-> Property(s, "sources")]

ObjectOf(s) ==
    [t |-> "object",
     summary |-> Property(s, "summary"),
     clarifyingQuestions |-> Property(s, "clarifyingQuestions"),
     recommendations |-> Property(s, "recommendations"),
     sources |-> Property(s, "sources")]

JSONParse(s) ==
    LET u == NoSpace(s)
    IN  IF IsObjectText(u) THEN [ok |-> TRUE, value |-> ObjectOf(u)]
        ELSE IF u = <<"n">> THEN [ok |-> TRUE, value |-> Null]
        ELSE [ok |-> FALSE, value |-> Undefined]

(***************************************************************************)
(* Source deduplication (geminiService.ts:166-184).  A chunk is a uri and  *)
(* a title, "" when the property is missing.  OrderedMap is a JavaScript   *)
(* Map: set() overwrites a present key in place and appends a new one.     *)
(***************************************************************************)
MapSetKeepFirst(m, item) ==
    IF \E i \in DOMAIN m : m[i].uri = item.uri THEN m ELSE Append(m, item)

MapSet(m, item) ==
    IF \E i \in DOMAIN m : m[i].uri = item.uri
    THEN [i \in DOMAIN m |-> IF m[i].uri = item.uri THEN item ELSE m[i]]
    ELSE Append(m, item)

RECURSIVE OrderedMap(_)
OrderedMap(items) ==
    IF items = <<>> THEN <<>>
    ELSE MapSet(OrderedMap(SubSeq(items, 1, Len(items) - 1)), items[Len(items)])

uniqueSources(groundingChunks) ==
    OrderedMap(SelectSeq(groundingChunks, LAMBDA c : c.uri # "" /\ c.title # ""))

(***************************************************************************)
(* sendMessage (geminiService.ts:126-220).                                 *)
(***************************************************************************)
initChatAlways(c) == c + 1

\* Lines 76-87: chats.create() only when this.chat is null.
initChat(c) == IF c = 0 THEN c + 1 ELSE c

\* Lines 160-163: the result built when JSON.parse throws.
ParseFallbackNoEllipsis(cleanJson) ==
    [t |-> "object",
     summary |-> Str(IF Len(cleanJson) > SummaryLimit
                     THEN substring(cleanJson, 0, SummaryLimit)
                     ELSE cleanJson),
     clarifyingQuestions |-> Undefined,
     recommendations |-> Arr(<<>>),
     sources |-> Undefined]

ParseFallback(cleanJson) ==
    [t |-> "object",
     summary |-> Str(IF Len(cleanJson) > SummaryLimit
                     THEN substring(cleanJson, 0, SummaryLimit) \o <<".", ".", ".">>
                     ELSE cleanJson),
     clarifyingQuestions |-> Undefined,
     recommendations |-> Arr(<<>>),
     sources |-> Undefined]

\* Lines 146-186: the try block after the awaited model call resolved with
\* result.  Resolved is return, Rejected is a throw caught at line 188.
SendMessageBody(result) ==
    IF result.text = <<>>
    THEN Rejected(Err("Empty response from Gemini."))
    ELSE LET cleanJson == extractJSON(result.text)
             p == JSONParse(cleanJson)
             parsed == IF p.ok THEN p.value ELSE ParseFallback(cleanJson)
         IN  IF parsed.t # "object"
             THEN Rejected(Err("Cannot set properties of null (setting 'sources')"))
             ELSE Resolved([parsed EXCEPT !.sources = Arr(uniqueSources(result.chunks))])

errorMap ==
    [errorType \in {"default", "safety"} |->
        [l \in Languages |-> Str(<<"errorMap", errorType, l>>)]]

\* Property access: a missing key reads as undefined.
Get(obj, key) == IF key \in DOMAIN obj THEN obj[key] ELSE Undefined

ErrorTypeSafetyOnly(error) ==
    IF Includes(error.message, "SAFETY") THEN "safety" ELSE "default"

\* Lines 210-213.
ErrorType(error) ==
    IF Includes(error.message, "SAFETY") \/ Includes(error.message, "BLOCKED")
    THEN "safety"
    ELSE "default"

ErrorTranslateRethrow(error, l) == Rejected(error)

\* Lines 188-219: the catch block.  Reading a language of a missing table
\* entry would throw out of the catch block.
ErrorTranslate(error, l) ==
    LET errorType == ErrorType(error)
    IN  IF errorType \notin DOMAIN errorMap
        THEN Rejected(Err("Cannot read properties of undefined"))
        ELSE Resolved([t |-> "object",
                       summary |-> Get(errorMap[errorType], l),
                       clarifyingQuestions |-> Undefined,
                       recommendations |-> Arr(<<>>),
                       sources |-> Undefined])

\* The settlement of sendMessage's promise once withRetry settled with r.
sendMessage(r, l) ==
    LET body == IF r.kind = "rejected" THEN r ELSE SendMessageBody(r.value)
    IN  IF body.kind = "rejected" THEN ErrorTranslate(body.value, l) ELSE body

(***************************************************************************)
(* getMovieSynopsis (geminiService.ts:228-242).                            *)
(***************************************************************************)
Sentinel == Str(<<"Synopsis unavailable.">>)

getMovieSynopsisNoTrim(r) ==
    IF r.kind = "rejected" THEN Resolved(Sentinel)
    ELSE Resolved(IF r.value.text = <<>> THEN Sentinel ELSE Str(r.value.text))

\* The settlement of getMovieSynopsis's promise once generateContent settled
\* with r: response.text?.trim() || sentinel, and the catch block.
getMovieSynopsis(r) ==
    IF r.kind = "rejected" THEN Resolved(Sentinel)
    ELSE LET text == trim(r.value.text)
         IN  Resolved(IF text = <<>> THEN Sentinel ELSE Str(text))

(***************************************************************************)
(* Input domains.                                                          *)
(***************************************************************************)
ModelChars == {"{", "}", "S", "R"}

TextsUpTo(n) == UNION {[1..k -> ModelChars] : k \in 0..n}

\* Texts outside the brace alphabet: null, padded null, prose, prose around
\* an object.
OtherTexts == { <<"n">>, <<" ", "n", " ">>, <<"x", "x">>, <<"x", "{", "S", "R", "}", "x">> }

\* Serialized results with the members in several orders, one of them
\* pretty-printed.
SerializedTexts ==
    { <<"{", "S", "Q", "R", "}">>, <<"{", "S0", "R0", "}">>,
      <<"{", "Q", "R0", "S", "}">>, <<"{", "R", "S0", "Z", "}">>,
      <<"{", " ", "S", " ", "R", " ", "}">> }

Prose(n) == [i \in 1..n |-> "x"]

LongLengths == {SummaryLimit - 1, SummaryLimit, SummaryLimit + 1, SummaryLimit + 100}

\* Prose around the summary limit, bare, padded, and after a brace.
LongTexts ==
    {Prose(n) : n \in LongLengths}
        \cup {<<" ">> \o Prose(SummaryLimit + 1) \o <<" ">>,
              <<"{">> \o Prose(SummaryLimit)}

GroundedTexts == { <<"{", "S", "R", "}">>, <<"x", "x">> }

\* A grounding chunk's web uri and title; "" is a missing or empty property.
Chunks ==
    { [uri |-> "a", title |-> "A1"], [uri |-> "a", title |-> "A2"],
      [uri |-> "b", title |-> "B"], [uri |-> "c", title |-> ""],
      [uri |-> "", title |-> "D"] }

ChunkLists == UNION {[1..k -> Chunks] : k \in 0..MaxChunks}

SampleChunks ==
    <<[uri |-> "a", title |-> "A1"], [uri |-> "b", title |-> "B"],
      [uri |-> "a", title |-> "A2"], [uri |-> "c", title |-> ""]>>

\* Settlements of chat.sendMessage; the text <<>> is an absent or empty text,
\* the chunks <<>> absent grounding metadata.
ModelOutcomes ==
    {Resolved([text |-> x, chunks |-> <<>>]) : x \in TextsUpTo(MaxTextLen) \cup OtherTexts}
        \cup {Resolved([text |-> x, chunks |-> SampleChunks]) : x \in GroundedTexts}
        \cup {Rejected(f) : f \in Failures}

\* Settlements of chat.sendMessage in the runs that look at the response:
\* every text and every list of grounding chunks, and two failures.
ResponseFailures ==
    { [status |-> 503, message |-> <<"x">>], [status |-> 500, message |-> <<"x">>] }

ResponseOutcomes ==
    {Resolved([text |-> x, chunks |-> <<>>]) :
        x \in TextsUpTo(MaxTextLen) \cup OtherTexts \cup SerializedTexts \cup LongTexts}
        \cup {Resolved(x) : x \in [text : GroundedTexts, chunks : ChunkLists]}
        \cup {Rejected(f) : f \in ResponseFailures}

\* Settlements of models.generateContent; the text <<>> is an absent or
\* empty text.
SynopsisTexts == { <<>>, <<" ">>, <<" ", " ">>, <<"x">>, <<" ", "x", " ", "x", " ">> }

SynopsisOutcomes ==
    {Resolved([text |-> x]) : x \in SynopsisTexts} \cup {Rejected(f) : f \in Failures}

\* Texts handed to extractJSON directly.
ExtractChars == {"{", "}", "x", " ", "F", "j"}

RawTexts == UNION {[1..k -> ExtractChars] : k \in 0..MaxRawLen}

\* Queries handed to addToHistory directly: Letters are the queries of a
\* stored history, the others differ from them in case, in padding, or are new.
Letters ==
    <<"a", "b", "c", "d", "e", "f", "g", "h", "i", "j",
      "k", "l", "m", "n", "o", "p", "q", "r", "s", "t">>

HistoryQueries == { <<"a">>, <<"A">>, <<" ", "a">>, <<"t">>, <<"u">>, <<"v", " ">> }

\* The history stored by n calls with the first n Letters, one per millisecond.
Stored(n) ==
    [i \in 1..n |-> [query |-> <<Letters[n + 1 - i]>>, timestamp |-> n + 1 - i]]

\* Settlements of the operation handed to withRetry directly.
OperationOutcomes ==
    {Resolved(Str(<<"value">>))} \cup {Rejected(f) : f \in Failures}

\* Settlements of the model call in the App runs.
AppTexts ==
    { <<>>, <<"{", "S", "R", "}">>, <<"{", "S", "}">>, <<"n">>, <<"x", "x">> }

AppFailures ==
    { [status |-> 503, message |-> <<"x">>],
      [status |-> 429, message |-> <<"x", "BLOCKED">>],
      [status |-> 500, message |-> <<"x">>],
      [status |-> 0, message |-> <<"fetch failed">>],
      [status |-> 0, message |-> <<"SAFETY">>] }

AppOutcomes ==
    {Resolved([text |-> x, chunks |-> <<>>]) : x \in AppTexts}
        \cup {Rejected(f) : f \in AppFailures}

\* The languages picked in the App runs.
AppLanguages == {"English", "Hindi"}

Delays == {250, 1000}

\* Texts typed into the chat input: characters "a", "A" and white space.
InputTexts == { <<>>, <<" ">>, <<"a">>, <<" ", "A">> }

NoActivation == NewActivation(0, 0)

(***************************************************************************)
(* historyService.addToHistory (geminiService.ts:262-276).  A query is a   *)
(* sequence of characters; timestamp is the value Date.now() returned.     *)
(***************************************************************************)
LowerCaseOf(c) ==
    CASE c = "A" -> "a"
      [] c = "B" -> "b"
      [] OTHER -> c

toLowerCase(s) == [i \in DOMAIN s |-> LowerCaseOf(s[i])]

\* Array.prototype.slice(0, n)
slice0(items, n) == SubSeq(items, 1, IF Len(items) < n THEN Len(items) ELSE n)

addToHistoryNoLimit(stored, q, timestamp) ==
    <<[query |-> q, timestamp |-> timestamp]>> \o
        SelectSeq(stored, LAMBDA h : toLowerCase(h.query) # toLowerCase(trim(q)))

addToHistory(stored, q, timestamp) ==
    LET newItem == [query |-> q, timestamp |-> timestamp]
        filtered == SelectSeq(stored,
                        LAMBDA h : toLowerCase(h.query) # toLowerCase(trim(q)))
    IN  slice0(<<newItem>> \o filtered, HistoryLimit)

(***************************************************************************)
(* App continuations (App.tsx:101-120 and 127-177).  A message is its role *)
(* and content; its id and timestamp are not modelled.                     *)
(***************************************************************************)
Message(role, content) == [role |-> role, content |-> content]

ConnectionError(l) == Str(<<"translations", l, "connectionError">>)

\* initApp after the awaited getColdStart settled with s: try, catch, finally.
InitAppSettled(s) ==
    /\ IF s.kind = "resolved"
       THEN /\ messages' = <<Message("model", s.value)>>
            /\ recommendations' = s.value.recommendations
            /\ UNCHANGED hasInitializationError
       ELSE /\ hasInitializationError' = TRUE
            /\ UNCHANGED <<messages, recommendations>>
    /\ isLoading' = FALSE
    /\ UNCHANGED <<language, input, viewVars, storeVars, extractVars, partVars,
                   mounted, sends>>

HandleSendSettledAlways(s) ==
    /\ IF s.kind = "resolved"
       THEN /\ messages' = Append(messages, Message("model", s.value))
            /\ recommendations' = s.value.recommendations
       ELSE /\ messages' = Append(messages,
                    Message("model", [t |-> "object",
                                      summary |-> ConnectionError(lang),
                                      clarifyingQuestions |-> Undefined,
                                      recommendations |-> Arr(<<>>),
                                      sources |-> Undefined]))
            /\ UNCHANGED recommendations
    /\ isLoading' = FALSE
    /\ UNCHANGED <<hasInitializationError, language, input, viewVars, storeVars,
                   extractVars, partVars, mounted,
                   sends>>

HandleSendSettledKeepsLoading(s) ==
    /\ IF s.kind = "resolved"
       THEN /\ messages' = Append(messages, Message("model", s.value))
            /\ recommendations' =
                   IF /\ s.value.recommendations.t = "array"
                      /\ Len(s.value.recommendations.v) > 0
                   THEN s.value.recommendations
                   ELSE recommendations
       ELSE /\ messages' = Append(messages,
                    Message("model", [t |-> "object",
                                      summary |-> ConnectionError(lang),
                                      clarifyingQuestions |-> Undefined,
                                      recommendations |-> Arr(<<>>),
                                      sources |-> Undefined]))
            /\ UNCHANGED recommendations
    /\ UNCHANGED <<isLoading, hasInitializationError, language, input, viewVars,
                   storeVars, extractVars, partVars, mounted,
                   sends>>

\* handleSend after the awaited sendMessage settled with s.
HandleSendSettled(s) ==
    /\ IF s.kind = "resolved"
       THEN /\ messages' = Append(messages, Message("model", s.value))
            /\ recommendations' =
                   IF /\ s.value.recommendations.t = "array"
                      /\ Len(s.value.recommendations.v) > 0
                   THEN s.value.recommendations
                   ELSE recommendations
       ELSE /\ messages' = Append(messages,
                    Message("model", [t |-> "object",
                                      summary |-> ConnectionError(lang),
                                      clarifyingQuestions |-> Undefined,
                                      recommendations |-> Arr(<<>>),
                                      sources |-> Undefined]))
            /\ UNCHANGED recommendations
    /\ isLoading' = FALSE
    /\ UNCHANGED <<hasInitializationError, language, input, viewVars, storeVars,
                   extractVars, partVars, mounted,
                   sends>>

AppContinue(s) ==
    CASE caller = "initApp" -> InitAppSettled(s)
      [] caller = "handleSend" -> HandleSendSettled(s)
      [] OTHER -> UNCHANGED appVars

(***************************************************************************)
(* The request in flight.                                                  *)
(***************************************************************************)
\* What the entry point's promise does once the withRetry around the model
\* call settled with r: getColdStart hands sendMessage's settlement to its
\* own withRetry (geminiService.ts:222-226).
EntrySettle(r) ==
    CASE entry = "withRetry" -> r
      [] entry = "sendMessage" -> sendMessage(r, lang)
      [] entry = "getColdStart" ->
            LET s == sendMessage(r, lang)
            IN  IF s.kind = "rejected"
                THEN IF ShouldRetry(ort.retries, s.value)
                     THEN [kind |-> "backoff"]
                     ELSE Rethrow(s.value)
                ELSE s

\* The operation's promise settles with r; withRetry's catch decides.
OperationSettles(r) ==
    /\ pc = "inflight"
    /\ hist' = IF entry = "withRetry"
               THEN Append(hist, IF r.kind = "rejected" THEN r.value.status ELSE 200)
               ELSE hist
    /\ last' = r
    /\ IF r.kind = "rejected" /\ ShouldRetry(rt.retries, r.value)
       THEN /\ pc' = "backoff"
            /\ UNCHANGED <<outcome, appVars>>
       ELSE LET s == EntrySettle(IF r.kind = "rejected" THEN Rethrow(r.value) ELSE r)
            IN  IF s.kind = "backoff"
                THEN /\ pc' = "outerBackoff"
                     /\ UNCHANGED <<outcome, appVars>>
                ELSE /\ pc' = "done"
                     /\ outcome' = s
                     /\ AppContinue(s)
    /\ UNCHANGED <<chat, calls, caller, entry, lang, args, rt, ort>>

\* setTimeout(res, delay) fires and withRetry calls itself (line 120).  The
\* withRetry of getColdStart calls sendMessage again, which starts a new
\* withRetry around the model call.
TimerFires ==
    /\ pc \in {"backoff", "outerBackoff"}
    /\ IF pc = "backoff"
       THEN /\ rt' = Recurse(rt)
            /\ UNCHANGED <<ort, chat, calls>>
       ELSE /\ ort' = Recurse(ort)
            /\ chat' = initChat(chat)
            /\ calls' = calls + 1
            /\ rt' = Invoke(NewActivation(DefaultRetries, DefaultDelay))
    /\ pc' = "inflight"
    /\ UNCHANGED <<caller, entry, lang, args, hist, last, outcome, appVars>>

\* The synchronous part of sendMessage: initChat, then withRetry invokes
\* chat.sendMessage for the first time.
StartSendMessage(l) ==
    /\ chat' = initChat(chat)
    /\ calls' = calls + 1
    /\ lang' = l
    /\ args' = [retries |-> DefaultRetries, delay |-> DefaultDelay]
    /\ rt' = Invoke(NewActivation(DefaultRetries, DefaultDelay))
    /\ hist' = <<>>
    /\ last' = Pending
    /\ outcome' = Pending
    /\ pc' = "inflight"

(***************************************************************************)
(* Initial states of the parts.                                            *)
(***************************************************************************)
InitApp0 ==
    /\ isLoading = FALSE
    /\ hasInitializationError = FALSE
    /\ messages = <<>>
    /\ recommendations = Arr(<<>>)
    /\ language = "English"
    /\ input = <<>>
    /\ viewMode = "recommendations"
    /\ sortBy = "default"
    /\ filterType = "all"
    /\ filterDecade = "all"
    /\ filterGenre = "all"
    /\ filterIndustry = "all"
    /\ mounted = FALSE
    /\ sends = 0

(***************************************************************************)
(* watchlistService.ts.  localStorage holds, under each key, no item       *)
(* (Null) or the text JSON.stringify made of a list, a record with the     *)
(* list in its field of; JSON.parse of that text gives the list back, a    *)
(* Movie having only string and string-array fields.                       *)
(***************************************************************************)
UserIds == {Undefined, Str(<<"u1">>)}

\* Lines 3-7.
getKey(userId) ==
    IF userId.t = "string" /\ userId.v # <<>>
    THEN <<"moviesgpt_watchlist", "_">> \o userId.v
    ELSE <<"moviesgpt_watchlist", "_", "guest">>

\* Lines 10-18.
getWatchlist(store, userId) ==
    LET stored == store[getKey(userId)]
    IN  IF stored # Null THEN stored.of ELSE <<>>

\* list.some(m => m.title === movie.title && m.year === movie.year)
SomeSame(list, mv) ==
    \E i \in DOMAIN list : list[i].title = mv.title /\ list[i].year = mv.year

addToWatchlistNoCheck(store, mv, userId) ==
    [store EXCEPT ![getKey(userId)] =
        [t |-> "json", of |-> Append(getWatchlist(store, userId), mv)]]

\* Lines 20-31.
addToWatchlist(store, mv, userId) ==
    LET list == getWatchlist(store, userId)
    IN  IF ~SomeSame(list, mv)
        THEN [store EXCEPT ![getKey(userId)] = [t |-> "json", of |-> Append(list, mv)]]
        ELSE store

\* Lines 33-41.
removeFromWatchlist(store, mv, userId) ==
    LET list == getWatchlist(store, userId)
        kept == SelectSeq(list,
                    LAMBDA w : ~(w.title = mv.title /\ w.year = mv.year))
    IN  [store EXCEPT ![getKey(userId)] = [t |-> "json", of |-> kept]]

\* Lines 43-50.
isInWatchlist(store, mv, userId) == SomeSame(getWatchlist(store, userId), mv)

\* Movies A (1999), A (2021) and B (1999); A (1999) in two versions that differ
\* in a field other than title and year.
WatchMovies ==
    { Movie(<<"A">>, <<"1999">>, Undefined, "movie", Undefined, Undefined, <<>>),
      Movie(<<"A">>, <<"1999">>, Str(<<"x">>), "movie", Undefined, Undefined, <<>>),
      Movie(<<"A">>, <<"2021">>, Undefined, "movie", Undefined, Undefined, <<>>),
      Movie(<<"B">>, <<"1999">>, Undefined, "movie", Undefined, Undefined, <<>>) }

(***************************************************************************)
(* displayMovies, App.tsx:191-225.  A year is a text of the tokens         *)
(* "1975", "1999", "2019", "2021" (runs of digits), "--" (the en dash), "-"    *)
(* (the hyphen), white space " " and "T" (a run of letters, as in TBA).    *)
(***************************************************************************)
DigitsValue(token) ==
    CASE token = "1970" -> 1970
      [] token = "1975" -> 1975
      [] token = "1990" -> 1990
      [] token = "1999" -> 1999
      [] token = "2019" -> 2019
      [] token = "2020" -> 2020
      [] token = "2021" -> 2021
      [] OTHER -> -1

\* parseInt: white space is skipped, then an optional sign and a run of
\* digits are read; whatever follows is ignored.  The result is NaN (t) or
\* a number (t and v).
parseInt(text) ==
    LET rest == TrimStart(text)
    IN  IF rest # <<>> /\ DigitsValue(rest[1]) >= 0
        THEN [t |-> "number", v |-> DigitsValue(rest[1])]
        ELSE IF Len(rest) >= 2 /\ rest[1] = "-" /\ DigitsValue(rest[2]) >= 0
             THEN [t |-> "number", v |-> 0 - DigitsValue(rest[2])]
             ELSE [t |-> "NaN"]

\* text.split(sep)[0]
SplitFirst(text, sep) ==
    IF indexOf(text, sep) = -1 THEN text ELSE SubSeq(text, 1, indexOf(text, sep))

\* haystack.includes(needle)
includes(haystack, needle) ==
    \E i \in 0..(Len(haystack) - Len(needle)) :
        SubSeq(haystack, i + 1, i + Len(needle)) = needle

\* Lines 195-202.
IndustryMatches(mv, filter) ==
    LET ind == IF mv.industry.t = "string" THEN toLowerCase(mv.industry.v) ELSE <<>>
        lang0 == IF mv.language.t = "string" THEN toLowerCase(mv.language.v) ELSE <<>>
        target == toLowerCase(<<filter>>)
    IN  includes(ind, target) \/ includes(lang0, target)

\* Lines 203-212.
DecadeMatches(mv, filter) ==
    LET yearStr == trim(SplitFirst(SplitFirst(mv.year, "--"), "-"))
        year == parseInt(yearStr)
        decadeStart == parseInt(<<filter>>)
    IN  IF year.t = "NaN" THEN FALSE
        ELSE IF filter = "older" THEN year.v < 1980
             ELSE /\ decadeStart.t # "NaN"
                  /\ year.v >= decadeStart.v
                  /\ year.v < decadeStart.v + 10

\* Lines 213-217.
GenreMatches(mv, filter) ==
    \E i \in DOMAIN mv.genres :
        includes(toLowerCase(mv.genres[i]), toLowerCase(<<filter>>))

\* parseInt(x.year.split(en dash)[0]) || 0
YearKey(mv) ==
    LET year == parseInt(SplitFirst(mv.year, "--"))
    IN  IF year.t = "NaN" THEN 0 ELSE year.v

\* The comparator sort is called with under the order newest (line 220) or
\* oldest (line 222).
compare(order, a, b) ==
    IF order = "newest" THEN YearKey(b) - YearKey(a) ELSE YearKey(a) - YearKey(b)

\* Array.prototype.sort with a comparator, which is stable: an item goes
\* behind every item the comparator does not put after it.
RECURSIVE InsertSorted(_, _, _)
InsertSorted(sorted, x, order) ==
    IF sorted = <<>> THEN <<x>>
    ELSE IF compare(order, sorted[Len(sorted)], x) <= 0
         THEN Append(sorted, x)
         ELSE Append(InsertSorted(SubSeq(sorted, 1, Len(sorted) - 1), x, order),
                     sorted[Len(sorted)])

RECURSIVE sort(_, _)
sort(list, order) ==
    IF list = <<>> THEN <<>>
    ELSE InsertSorted(sort(SubSeq(list, 1, Len(list) - 1), order),
                      list[Len(list)], order)

\* Lines 191-225.
displayMovies ==
    LET currentList == IF viewMode = "watchlist" THEN watchlist
                       ELSE recommendations.v
        byType == IF filterType # "all"
                  THEN SelectSeq(currentList, LAMBDA mv : mv.type = filterType)
                  ELSE currentList
        byIndustry == IF filterIndustry # "all"
                      THEN SelectSeq(byType,
                               LAMBDA mv : IndustryMatches(mv, filterIndustry))
                      ELSE byType
        byDecade == IF filterDecade # "all"
                    THEN SelectSeq(byIndustry,
                             LAMBDA mv : DecadeMatches(mv, filterDecade))
                    ELSE byIndustry
        byGenre == IF filterGenre # "all"
                   THEN SelectSeq(byDecade, LAMBDA mv : GenreMatches(mv, filterGenre))
                   ELSE byDecade
    IN  IF sortBy = "newest" THEN sort(byGenre, "newest")
        ELSE IF sortBy = "oldest" THEN sort(byGenre, "oldest")
             ELSE byGenre

\* Items with the years 1975, 1999, 2019--2021, TBA and the empty text.
DisplayItems ==
    { Movie(<<"A">>, <<"1975">>, Undefined, "movie", Str(<<"B">>), Undefined,
            << <<"A">> >>),
      Movie(<<"B">>, <<"1999">>, Undefined, "movie", Undefined, Str(<<"B">>),
            << <<"a">>, <<"t">> >>),
      Movie(<<"C">>, <<"2019", "--", "2021">>, Undefined, "tv", Undefined, Undefined,
            << <<"t">> >>),
      Movie(<<"D">>, <<"T">>, Undefined, "movie", Str(<<"b">>), Undefined,
            << <<"A">> >>),
      Movie(<<"E">>, <<>>, Undefined, "tv", Undefined, Undefined, <<>>) }

\* Lists of up to MaxMovies different items.
DisplayLists ==
    UNION { { list \in [1..n -> DisplayItems] :
                \A i, j \in 1..n : list[i] = list[j] => i = j } : n \in 0..MaxMovies }

\* user?.uid
uidOf(u) == IF u = Null THEN Undefined ELSE u.uid

\* App.tsx:81-86: the effect on [viewMode, user].
LoadWatchlist(mode, u, store) ==
    IF mode = "watchlist" \/ u # Null
    THEN watchlist' = getWatchlist(store, uidOf(u))
    ELSE watchlist' = watchlist

(***************************************************************************)
(* MovieCard, part_003.                                                    *)
(***************************************************************************)
\* The cleanup of the synopsis effect: active = false in the closure of the
\* run it belongs to.
Deactivated(rs) == {[r EXCEPT !.active = FALSE] : r \in rs}

\* Lines 34-59, up to the await: the cleanup of the previous run and the run
\* of the effect for the props mv and l; loading is loadingSynopsis before it.
SynopsisEffect(mv, l, loading) ==
    /\ effectRun' = effectRun + 1
    /\ IF mv.synopsis.t = "string" /\ mv.synopsis.v # <<>>
       THEN /\ synopsis' = [value |-> mv.synopsis, of |-> 0]
            /\ loadingSynopsis' = loading
            /\ requests' = Deactivated(requests)
       ELSE /\ loadingSynopsis' = TRUE
            /\ synopsis' = [value |-> Str(<<>>), of |-> 0]
            /\ requests' = Deactivated(requests) \cup
                   {[run |-> effectRun + 1, active |-> TRUE, title |-> mv.title,
                     year |-> mv.year, language |-> l]}

\* An empty store.
InitStore0 ==
    /\ history = <<>>
    /\ now = 0
    /\ adds = 0
    /\ query = <<>>

InitExtract0 ==
    /\ rawText = <<>>
    /\ extracted = <<>>

\* An empty watchlist store, nobody signed in, no card rendered.
InitPart0 ==
    /\ storage = [k \in {getKey(userId) : userId \in UserIds} |-> Null]
    /\ user = Null
    /\ watchlist = <<>>
    /\ wcall = [op |-> "none", movie |-> Undefined, userId |-> Undefined]
    /\ cardMounted = FALSE
    /\ movie = Undefined
    /\ inWatchlist = FALSE
    /\ synopsis = [value |-> Str(<<>>), of |-> 0]
    /\ loadingSynopsis = FALSE
    /\ requests = {}
    /\ effectRun = 0

InitService0 ==
    /\ chat = 0
    /\ calls = 0
    /\ pc = "idle"
    /\ lang = "English"
    /\ ort = NoActivation
    /\ hist = <<>>
    /\ last = Pending
    /\ outcome = Pending

(***************************************************************************)
(* withRetry called directly with an arbitrary budget and delay.           *)
(***************************************************************************)
InitRetry ==
    /\ InitApp0
    /\ InitStore0
    /\ InitExtract0
    /\ InitService0
    /\ InitPart0
    /\ caller = "direct"
    /\ entry = "withRetry"
    /\ \E retries \in 0..MaxRetries, delay \in Delays :
           /\ args = [retries |-> retries, delay |-> delay]
           /\ rt = NewActivation(retries, delay)

CallWithRetry ==
    /\ pc = "idle"
    /\ rt' = Invoke(rt)
    /\ pc' = "inflight"
    /\ UNCHANGED <<chat, calls, caller, entry, lang, args, ort, hist, last, outcome,
                   appVars>>

OperationReturns == \E r \in OperationOutcomes : OperationSettles(r)

NextRetry == CallWithRetry \/ OperationReturns \/ TimerFires

SpecRetry == InitRetry /\ [][NextRetry]_vars

(***************************************************************************)
(* The service called directly: sendMessage and getColdStart.              *)
(***************************************************************************)
InitService ==
    /\ InitApp0
    /\ InitStore0
    /\ InitExtract0
    /\ InitService0
    /\ InitPart0
    /\ caller = "direct"
    /\ entry = "sendMessage"
    /\ args = [retries |-> 0, delay |-> 0]
    /\ rt = NoActivation

\* geminiService.sendMessage(message, l), up to the await.
BeginSendMessage(l) ==
    /\ pc = "idle"
    /\ calls < MaxCalls
    /\ StartSendMessage(l)
    /\ entry' = "sendMessage"
    /\ ort' = NoActivation
    /\ UNCHANGED <<caller, appVars>>

\* geminiService.getColdStart(l), up to the await.
BeginGetColdStart(l) ==
    /\ pc = "idle"
    /\ calls < MaxCalls
    /\ StartSendMessage(l)
    /\ entry' = "getColdStart"
    /\ ort' = Invoke(NewActivation(DefaultRetries, DefaultDelay))
    /\ UNCHANGED <<caller, appVars>>

CallSendMessage == \E l \in Languages \cup {OtherLanguage} : BeginSendMessage(l)

CallGetColdStart == \E l \in Languages \cup {OtherLanguage} : BeginGetColdStart(l)

ModelResponds == \E r \in ModelOutcomes : OperationSettles(r)

\* The awaiting caller takes the settlement; the service is idle again.
CallerResumes ==
    /\ pc = "done"
    /\ pc' = "idle"
    /\ hist' = <<>>
    /\ last' = Pending
    /\ outcome' = Pending
    /\ lang' = "English"
    /\ args' = [retries |-> 0, delay |-> 0]
    /\ rt' = NoActivation
    /\ ort' = NoActivation
    /\ UNCHANGED <<chat, calls, caller, entry, appVars>>

CallGetMovieSynopsisOnChat ==
    /\ pc = "idle"
    /\ \E l \in Languages \cup {OtherLanguage} : lang' = l
    /\ entry' = "getMovieSynopsis"
    /\ pc' = "synopsis"
    /\ chat' = initChat(chat)
    /\ hist' = <<>>
    /\ last' = Pending
    /\ outcome' = Pending
    /\ UNCHANGED <<calls, caller, args, rt, ort, appVars>>

\* geminiService.getMovieSynopsis(title, year, l), up to the await: one
\* generateContent request, outside the chat and outside withRetry.
CallGetMovieSynopsis ==
    /\ pc = "idle"
    /\ \E l \in Languages \cup {OtherLanguage} : lang' = l
    /\ entry' = "getMovieSynopsis"
    /\ pc' = "synopsis"
    /\ hist' = <<>>
    /\ last' = Pending
    /\ outcome' = Pending
    /\ UNCHANGED <<chat, calls, caller, args, rt, ort, appVars>>

SynopsisResponds ==
    /\ pc = "synopsis"
    /\ \E r \in SynopsisOutcomes :
           /\ hist' = Append(hist, IF r.kind = "rejected" THEN r.value.status ELSE 200)
           /\ last' = r
           /\ outcome' = getMovieSynopsis(r)
    /\ pc' = "done"
    /\ UNCHANGED <<chat, calls, caller, entry, lang, args, rt, ort, appVars>>

NextService ==
    \/ CallSendMessage
    \/ CallGetColdStart
    \/ CallGetMovieSynopsis
    \/ ModelResponds
    \/ SynopsisResponds
    \/ TimerFires
    \/ CallerResumes

SpecService == InitService /\ [][NextService]_vars

(***************************************************************************)
(* The service called directly in the default language, over every         *)
(* response of the model.                                                  *)
(***************************************************************************)
SendMessageEnglish == BeginSendMessage("English")

GetColdStartEnglish == BeginGetColdStart("English")

ResponseArrives == \E r \in ResponseOutcomes : OperationSettles(r)

NextResponse ==
    \/ SendMessageEnglish
    \/ GetColdStartEnglish
    \/ ResponseArrives
    \/ TimerFires
    \/ CallerResumes

SpecResponse == InitService /\ [][NextResponse]_vars

(***************************************************************************)
(* extractJSON called directly with a drawn text.                          *)
(***************************************************************************)
InitExtract ==
    /\ InitApp0
    /\ InitStore0
    /\ InitService0
    /\ InitPart0
    /\ caller = "direct"
    /\ entry = "extractJSON"
    /\ args = [retries |-> 0, delay |-> 0]
    /\ rt = NoActivation
    /\ rawText \in RawTexts
    /\ extracted = <<>>

CallExtractJSON ==
    /\ pc = "idle"
    /\ extracted' = extractJSON(rawText)
    /\ pc' = "done"
    /\ UNCHANGED <<chat, calls, caller, entry, lang, args, rt, ort, hist, last, outcome,
                   isLoading, hasInitializationError, messages, recommendations,
                   language, input, viewVars, storeVars, rawText, partVars, mounted,
                   sends>>

NextExtract == CallExtractJSON

SpecExtract == InitExtract /\ [][NextExtract]_vars

(***************************************************************************)
(* historyService.addToHistory called directly, on an empty store or on a  *)
(* store that earlier runs filled to one below, or to, the limit.          *)
(***************************************************************************)
InitHistory ==
    /\ InitApp0
    /\ InitExtract0
    /\ InitService0
    /\ InitPart0
    /\ caller = "direct"
    /\ entry = "addToHistory"
    /\ args = [retries |-> 0, delay |-> 0]
    /\ rt = NoActivation
    /\ \E n \in {0, HistoryLimit - 1, HistoryLimit} :
           /\ history = Stored(n)
           /\ now = n
    /\ adds = 0
    /\ query = <<>>

\* Date.now() does not run backwards: two calls may fall in one millisecond.
CallAddToHistory ==
    /\ adds < MaxAdds
    /\ adds' = adds + 1
    /\ \E q \in HistoryQueries, dt \in {0, 1} :
           /\ query' = q
           /\ now' = now + dt
           /\ history' = addToHistory(history, q, now')
    /\ UNCHANGED <<chat, calls, pc, caller, entry, lang, args, rt, ort, hist, last,
                   outcome, isLoading, hasInitializationError, messages,
                   recommendations, language, input, viewVars, extractVars,
                   partVars, mounted, sends>>

NextHistory == CallAddToHistory

SpecHistory == InitHistory /\ [][NextHistory]_vars

(***************************************************************************)
(* watchlistService called directly, on an empty store.                    *)
(***************************************************************************)
InitWatchlist ==
    /\ InitApp0
    /\ InitStore0
    /\ InitExtract0
    /\ InitService0
    /\ InitPart0
    /\ caller = "direct"
    /\ entry = "watchlistService"
    /\ args = [retries |-> 0, delay |-> 0]
    /\ rt = NoActivation

CallAddToWatchlist ==
    /\ \E mv \in WatchMovies, userId \in UserIds :
           /\ wcall' = [op |-> "addToWatchlist", movie |-> mv, userId |-> userId]
           /\ storage' = addToWatchlist(storage, mv, userId)
    /\ UNCHANGED <<chat, calls, pc, caller, entry, lang, args, rt, ort, hist, last,
                   outcome, isLoading, hasInitializationError, messages,
                   recommendations, language, input, viewVars, storeVars,
                   extractVars, user, watchlist, cardVars, mounted, sends>>

CallRemoveFromWatchlist ==
    /\ \E mv \in WatchMovies, userId \in UserIds :
           /\ wcall' = [op |-> "removeFromWatchlist", movie |-> mv, userId |-> userId]
           /\ storage' = removeFromWatchlist(storage, mv, userId)
    /\ UNCHANGED <<chat, calls, pc, caller, entry, lang, args, rt, ort, hist, last,
                   outcome, isLoading, hasInitializationError, messages,
                   recommendations, language, input, viewVars, storeVars,
                   extractVars, user, watchlist, cardVars, mounted, sends>>

NextWatchlist ==
    \/ CallAddToWatchlist
    \/ CallRemoveFromWatchlist

SpecWatchlist == InitWatchlist /\ [][NextWatchlist]_vars

(***************************************************************************)
(* displayMovies over an arbitrary recommendation list and arbitrary       *)
(* decade and genre filters, under the selectors of the results header.    *)
(***************************************************************************)
InitDisplay ==
    /\ isLoading = FALSE
    /\ hasInitializationError = FALSE
    /\ messages = <<>>
    /\ \E list \in DisplayLists : recommendations = Arr(list)
    /\ language = "English"
    /\ input = <<>>
    /\ viewMode = "recommendations"
    /\ sortBy = "default"
    /\ filterType = "all"
    /\ filterDecade \in {"all", "older", "1990", "2020"}
    /\ filterGenre \in {"all", "A"}
    /\ filterIndustry = "all"
    /\ mounted = TRUE
    /\ sends = 0
    /\ InitStore0
    /\ InitExtract0
    /\ InitService0
    /\ InitPart0
    /\ caller = "direct"
    /\ entry = "displayMovies"
    /\ args = [retries |-> 0, delay |-> 0]
    /\ rt = NoActivation

\* App.tsx:440 and 452, and the effect of lines 81-86.
SetViewMode ==
    /\ \E mode \in {"recommendations", "watchlist"} :
           /\ mode # viewMode
           /\ viewMode' = mode
           /\ LoadWatchlist(mode, user, storage)
    /\ UNCHANGED <<chat, calls, pc, caller, entry, lang, args, rt, ort, hist, last,
                   outcome, isLoading, hasInitializationError, messages,
                   recommendations, language, input, sortBy, filterType,
                   filterDecade, filterGenre, filterIndustry, storeVars,
                   extractVars, storage, user, wcall, cardVars, mounted, sends>>

\* App.tsx:473.
SetFilterType ==
    /\ \E type \in {"all", "movie", "tv"} : type # filterType /\ filterType' = type
    /\ UNCHANGED <<chat, calls, pc, caller, entry, lang, args, rt, ort, hist, last,
                   outcome, isLoading, hasInitializationError, messages,
                   recommendations, language, input, viewMode, sortBy,
                   filterDecade, filterGenre, filterIndustry, storeVars,
                   extractVars, partVars, mounted, sends>>

\* App.tsx:494, with the industry B of INDUSTRIES.
SetFilterIndustry ==
    /\ \E industry \in {"all", "B"} :
           industry # filterIndustry /\ filterIndustry' = industry
    /\ UNCHANGED <<chat, calls, pc, caller, entry, lang, args, rt, ort, hist, last,
                   outcome, isLoading, hasInitializationError, messages,
                   recommendations, language, input, viewMode, sortBy, filterType,
                   filterDecade, filterGenre, storeVars, extractVars, partVars,
                   mounted, sends>>

\* App.tsx:514.
SetSortBy ==
    /\ \E order \in {"default", "newest", "oldest"} : order # sortBy /\ sortBy' = order
    /\ UNCHANGED <<chat, calls, pc, caller, entry, lang, args, rt, ort, hist, last,
                   outcome, isLoading, hasInitializationError, messages,
                   recommendations, language, input, viewMode, filterType,
                   filterDecade, filterGenre, filterIndustry, storeVars,
                   extractVars, partVars, mounted, sends>>

NextDisplay ==
    \/ SetViewMode
    \/ SetFilterType
    \/ SetFilterIndustry
    \/ SetSortBy

SpecDisplay == InitDisplay /\ [][NextDisplay]_vars

(***************************************************************************)
(* One MovieCard of the App: its parent mounts it, changes its props and   *)
(* unmounts it, its synopsis requests settle in any order, the user        *)
(* toggles its watchlist button, signs in and out and switches the view.   *)
(***************************************************************************)
InitCard ==
    /\ InitApp0
    /\ InitStore0
    /\ InitExtract0
    /\ InitService0
    /\ InitPart0
    /\ caller = "direct"
    /\ entry = "MovieCard"
    /\ args = [retries |-> 0, delay |-> 0]
    /\ rt = NoActivation

\* part_003:16-59: the first render, then the two effects.  The card shows
\* A without or with a synopsis, or B.
MountCard ==
    /\ ~cardMounted
    /\ effectRun < MaxRuns
    /\ cardMounted' = TRUE
    /\ \E mv \in {w \in WatchMovies : w.year = <<"1999">>} :
           /\ movie' = mv
           /\ inWatchlist' = isInWatchlist(storage, mv, Undefined)
           /\ SynopsisEffect(mv, language, FALSE)
    /\ UNCHANGED <<chat, calls, pc, caller, entry, lang, args, rt, ort, hist, last,
                   outcome, isLoading, hasInitializationError, messages,
                   recommendations, language, input, viewVars, storeVars,
                   extractVars, watchVars, mounted, sends>>

\* A render with another movie or language: the effect on [movie] (lines
\* 29-31) and the effect on [title, year, synopsis, language] (lines 34-59).
ChangeProps ==
    /\ cardMounted
    /\ effectRun < MaxRuns
    /\ \E mv \in {w \in WatchMovies : w.year = <<"1999">>}, l \in AppLanguages :
           /\ <<mv, l>> # <<movie, language>>
           /\ movie' = mv
           /\ language' = l
           /\ inWatchlist' = IF mv # movie
                             THEN isInWatchlist(storage, mv, Undefined)
                             ELSE inWatchlist
           /\ IF <<mv.title, mv.year, mv.synopsis, l>> #
                    <<movie.title, movie.year, movie.synopsis, language>>
              THEN SynopsisEffect(mv, l, loadingSynopsis)
              ELSE UNCHANGED <<synopsis, loadingSynopsis, requests, effectRun>>
    /\ UNCHANGED <<chat, calls, pc, caller, entry, lang, args, rt, ort, hist, last,
                   outcome, isLoading, hasInitializationError, messages,
                   recommendations, input, viewVars, storeVars, extractVars,
                   watchVars, cardMounted, mounted, sends>>

\* The cleanup of line 58 on unmount.
UnmountCard ==
    /\ cardMounted
    /\ cardMounted' = FALSE
    /\ requests' = Deactivated(requests)
    /\ UNCHANGED <<chat, calls, pc, caller, entry, lang, args, rt, ort, hist, last,
                   outcome, isLoading, hasInitializationError, messages,
                   recommendations, language, input, viewVars, storeVars,
                   extractVars, watchVars, movie, inWatchlist, synopsis,
                   loadingSynopsis, effectRun, mounted, sends>>

SynopsisSettlesAlways ==
    /\ \E req \in requests,
          r \in { Resolved([text |-> <<"x", " ">>]), Resolved([text |-> <<" ">>]),
                  Rejected([status |-> 503, message |-> <<"x">>]) } :
           LET settled == getMovieSynopsis(r)
           IN  /\ requests' = requests \ {req}
               /\ synopsis' = IF settled.kind = "resolved"
                               THEN [value |-> settled.value, of |-> req.run]
                               ELSE [value |-> Str(<<"noSynopsis">>), of |-> req.run]
               /\ loadingSynopsis' = FALSE
    /\ UNCHANGED <<chat, calls, pc, caller, entry, lang, args, rt, ort, hist, last,
                   outcome, isLoading, hasInitializationError, messages,
                   recommendations, language, input, viewVars, storeVars,
                   extractVars, watchVars, movie, inWatchlist, effectRun,
                   cardMounted, mounted, sends>>

\* Lines 46-54: the continuation of loadSynopsis after the await, in the
\* closure of the effect run that issued the request.
SynopsisSettles ==
    /\ \E req \in requests,
          r \in { Resolved([text |-> <<"x", " ">>]), Resolved([text |-> <<" ">>]),
                  Rejected([status |-> 503, message |-> <<"x">>]) } :
           LET settled == getMovieSynopsis(r)
           IN  /\ requests' = requests \ {req}
               /\ synopsis' = IF ~req.active THEN synopsis
                               ELSE IF settled.kind = "resolved"
                                    THEN [value |-> settled.value, of |-> req.run]
                                    ELSE [value |-> Str(<<"noSynopsis">>), of |-> req.run]
               /\ loadingSynopsis' = IF req.active THEN FALSE ELSE loadingSynopsis
    /\ UNCHANGED <<chat, calls, pc, caller, entry, lang, args, rt, ort, hist, last,
                   outcome, isLoading, hasInitializationError, messages,
                   recommendations, language, input, viewVars, storeVars,
                   extractVars, watchVars, movie, inWatchlist, effectRun,
                   cardMounted, mounted, sends>>

\* part_003:61-74, and onToggle, which is refreshWatchlist (App.tsx:88-90,
\* 624): the card calls the service with no userId.
ToggleWatchlist ==
    /\ cardMounted
    /\ IF inWatchlist
       THEN /\ storage' = removeFromWatchlist(storage, movie, Undefined)
            /\ wcall' = [op |-> "removeFromWatchlist", movie |-> movie,
                         userId |-> Undefined]
            /\ inWatchlist' = FALSE
       ELSE /\ storage' = addToWatchlist(storage, movie, Undefined)
            /\ wcall' = [op |-> "addToWatchlist", movie |-> movie,
                         userId |-> Undefined]
            /\ inWatchlist' = TRUE
    /\ watchlist' = getWatchlist(storage', uidOf(user))
    /\ UNCHANGED <<chat, calls, pc, caller, entry, lang, args, rt, ort, hist, last,
                   outcome, isLoading, hasInitializationError, messages,
                   recommendations, language, input, viewVars, storeVars,
                   extractVars, user, movie, synopsis, loadingSynopsis, requests,
                   effectRun, cardMounted, mounted, sends>>

\* AuthContext.tsx:81-114: a user signs in; then the effect of App.tsx:81-86.
Login ==
    /\ user = Null
    /\ user' = [t |-> "user", uid |-> Str(<<"u1">>)]
    /\ LoadWatchlist(viewMode, user', storage)
    /\ UNCHANGED <<chat, calls, pc, caller, entry, lang, args, rt, ort, hist, last,
                   outcome, isLoading, hasInitializationError, messages,
                   recommendations, language, input, viewVars, storeVars,
                   extractVars, storage, wcall, cardVars, mounted, sends>>

\* App.tsx:578-582: logout() and setViewMode('recommendations'); then the
\* effect of lines 81-86, which loads nothing in this state.
Logout ==
    /\ user # Null
    /\ user' = Null
    /\ viewMode' = "recommendations"
    /\ LoadWatchlist("recommendations", Null, storage)
    /\ UNCHANGED <<chat, calls, pc, caller, entry, lang, args, rt, ort, hist, last,
                   outcome, isLoading, hasInitializationError, messages,
                   recommendations, language, input, sortBy, filterType,
                   filterDecade, filterGenre, filterIndustry, storeVars,
                   extractVars, storage, wcall, cardVars, mounted, sends>>

NextCard ==
    \/ MountCard
    \/ ChangeProps
    \/ UnmountCard
    \/ SynopsisSettles
    \/ ToggleWatchlist
    \/ Login
    \/ Logout
    \/ SetViewMode

SpecCard == InitCard /\ [][NextCard]_vars

(***************************************************************************)
(* The App: initApp on mount or on the retry button, handleSend, and the   *)
(* language selector.                                                      *)
(***************************************************************************)
Init ==
    /\ InitApp0
    /\ InitStore0
    /\ InitExtract0
    /\ InitService0
    /\ InitPart0
    /\ caller = "direct"
    /\ entry = "sendMessage"
    /\ args = [retries |-> 0, delay |-> 0]
    /\ rt = NoActivation

\* App.tsx:608: the retry button is rendered in this state only.
RetryButtonShown == hasInitializationError /\ recommendations = Arr(<<>>)

\* App.tsx:101-105, up to the await.
InitApp ==
    /\ ~mounted \/ RetryButtonShown
    /\ mounted' = TRUE
    /\ isLoading' = TRUE
    /\ hasInitializationError' = FALSE
    /\ caller' = "initApp"
    /\ entry' = "getColdStart"
    /\ ort' = Invoke(NewActivation(DefaultRetries, DefaultDelay))
    /\ StartSendMessage(language)
    /\ UNCHANGED <<messages, recommendations, language, input, viewVars, storeVars,
                   extractVars, partVars, sends>>

\* App.tsx:131-152: handleSend past its guard, up to the await.
SendRequest(userText, textOverride) ==
    /\ input' = IF textOverride = <<>> THEN <<>> ELSE input
    /\ isLoading' = TRUE
    /\ now' = now + 1
    /\ adds' = adds + 1
    /\ query' = userText
    /\ history' = addToHistory(history, userText, now')
    /\ viewMode' = "recommendations"
    /\ sortBy' = "default"
    /\ filterType' = "all"
    /\ filterDecade' = "all"
    /\ filterGenre' = "all"
    /\ filterIndustry' = "all"
    /\ messages' = Append(messages, Message("user", Str(userText)))
    /\ caller' = "handleSend"
    /\ entry' = "sendMessage"
    /\ ort' = NoActivation
    /\ StartSendMessage(language)
    /\ UNCHANGED <<hasInitializationError, recommendations, language, extractVars,
                   partVars, mounted>>

handleSendUnguarded(textOverride) ==
    LET userText == IF textOverride # <<>> THEN textOverride ELSE trim(input)
    IN  /\ userText # <<>>
        /\ SendRequest(userText, textOverride)

\* App.tsx:127-129: userText = textOverride || input.trim(), and the guard.
handleSend(textOverride) ==
    LET userText == IF textOverride # <<>> THEN textOverride ELSE trim(input)
    IN  /\ userText # <<>>
        /\ ~isLoading
        /\ SendRequest(userText, textOverride)

\* App.tsx:179-184 and 404: Enter in the input, or the send button.
HandleSend ==
    /\ mounted
    /\ sends < MaxSends
    /\ sends' = sends + 1
    /\ handleSend(<<>>)

\* App.tsx:186-189: a query picked in the history modal.
HandleHistorySelect ==
    /\ mounted
    /\ sends < MaxSends
    /\ sends' = sends + 1
    /\ \E i \in DOMAIN history : handleSend(history[i].query)

\* App.tsx:397-401: typing; the input is disabled while a request is loading.
TypeInput ==
    /\ mounted
    /\ ~isLoading
    /\ \E text \in InputTexts : text # input /\ input' = text
    /\ UNCHANGED <<chat, calls, pc, caller, entry, lang, args, rt, ort, hist, last,
                   outcome, isLoading, hasInitializationError, messages,
                   recommendations, language, viewVars, storeVars, extractVars,
                   partVars, mounted, sends>>

\* App.tsx:297.
SetLanguage ==
    /\ mounted
    /\ \E l \in AppLanguages : l # language /\ language' = l
    /\ UNCHANGED <<chat, calls, pc, caller, entry, lang, args, rt, ort, hist, last,
                   outcome, isLoading, hasInitializationError, messages,
                   recommendations, input, viewVars, storeVars, extractVars,
                   partVars, mounted, sends>>

AppModelResponds == \E r \in AppOutcomes : OperationSettles(r)

Next ==
    \/ InitApp
    \/ TypeInput
    \/ HandleSend
    \/ HandleHistorySelect
    \/ SetLanguage
    \/ AppModelResponds
    \/ TimerFires

Spec == Init /\ [][Next]_vars

\* Every model call settles and every retry timer fires.
SpecFair == Spec /\ WF_vars(AppModelResponds) /\ WF_vars(TimerFires)

(***************************************************************************)
(* Properties of withRetry, under SpecRetry.                               *)
(***************************************************************************)
\* A failure that carries none of the three retryable signals.
NotRetryableSignal(e) ==
    /\ e.status # 503
    /\ e.status # 429
    /\ ~Includes(e.message, "fetch failed")

\* C4: with maxRetries = 2 and initial delay 1000, an operation that fails
\* twice with status 503 and then succeeds makes withRetry return the success
\* value after exactly 3 invocations, having waited 1000 ms and then 2000 ms.
C4_RetryTwiceThenSuccess ==
    (/\ entry = "withRetry"
     /\ args = [retries |-> 2, delay |-> 1000]
     /\ hist = <<503, 503, 200>>)
    => /\ pc = "done"
       /\ outcome.kind = "resolved"
       /\ outcome = last
       /\ rt.calls = 3
       /\ rt.waits = <<1000, 2000>>

C4_Witness ==
    /\ entry = "withRetry"
    /\ args = [retries |-> 2, delay |-> 1000]
    /\ hist = <<503, 503, 200>>
    /\ pc = "done"
    /\ rt.calls = 3

\* C5: whatever failures the operation produces, withRetry invokes it at most
\* maxRetries + 1 times (at most 3 times with the default budget of 2), and
\* the remaining-retries counter never goes below 0.
C5_AttemptsBounded ==
    entry = "withRetry"
    => /\ rt.calls <= args.retries + 1
       /\ (args.retries = DefaultRetries => rt.calls <= 3)
       /\ rt.retries >= 0

C5_Witness ==
    /\ entry = "withRetry"
    /\ args.retries = DefaultRetries
    /\ pc = "done"
    /\ outcome.kind = "rejected"
    /\ rt.calls = 3
    /\ rt.retries = 0

\* C6: a failure that is not retryable ends withRetry at once, whatever the
\* remaining budget: when it is the first failure the operation was invoked
\* exactly once and no delay was waited; no invocation and no wait ever
\* follows it.
C6_NonRetryableFailsFast ==
    (/\ entry = "withRetry"
     /\ last.kind = "rejected"
     /\ NotRetryableSignal(last.value))
    => /\ pc = "done"
       /\ outcome.kind = "rejected"
       /\ rt.calls = Len(hist)
       /\ Len(rt.waits) = Len(hist) - 1
       /\ (Len(hist) = 1 => rt.calls = 1 /\ rt.waits = <<>>)
       /\ rt.retries = args.retries - Len(rt.waits)

C6_Witness ==
    /\ entry = "withRetry"
    /\ args.retries = 3
    /\ hist = <<500>>
    /\ last.kind = "rejected"
    /\ NotRetryableSignal(last.value)
    /\ pc = "done"
    /\ rt.calls = 1
    /\ rt.retries = 3

\* C7: when withRetry gives up, on a failure that is not retryable or with
\* its retries exhausted, the caller receives the very failure the operation
\* raised on that last invocation, not a wrapped or translated one.
C7_RethrowsOriginalFailure ==
    (/\ entry = "withRetry"
     /\ pc = "done"
     /\ last.kind = "rejected")
    => outcome = Rejected(last.value)

\* Retries exhausted on retryable failures.
C7_Witness ==
    /\ entry = "withRetry"
    /\ pc = "done"
    /\ hist = <<503, 429, 503>>
    /\ rt.retries = 0
    /\ last.kind = "rejected"
    /\ Includes(last.value.message, "SAFETY")
    /\ outcome = last

(***************************************************************************)
(* Properties of sendMessage and getColdStart, under SpecService.          *)
(***************************************************************************)
ServiceDone == entry \in {"sendMessage", "getColdStart"} /\ pc = "done"

SafetyMarked(e) == Includes(e.message, "SAFETY") \/ Includes(e.message, "BLOCKED")

\* C1: whatever the model call does and whatever the language, sendMessage
\* and getColdStart resolve to a result object with a recommendations list.
C1_ResolvesWithRecommendations ==
    ServiceDone
    => /\ outcome.kind = "resolved"
       /\ outcome.value.t = "object"
       /\ outcome.value.recommendations.t = "array"

\* C2: every result of sendMessage or getColdStart has a summary that is a
\* defined string.
C2_SummaryIsString ==
    (ServiceDone /\ outcome.kind = "resolved") => outcome.value.summary.t = "string"

\* C8: a model call that failed with a safety-block signal is never retried:
\* no timer is armed and no further invocation follows that failure.
C8_SafetyNeverRetried ==
    (/\ entry \in {"sendMessage", "getColdStart"}
     /\ last.kind = "rejected"
     /\ SafetyMarked(last.value))
    => pc = "done"

\* C9: for each of the five supported languages, a caught failure yields the
\* safety string of that language when its message carries SAFETY or BLOCKED
\* and the default string of that language otherwise, with an empty
\* recommendations list; failures raised inside sendMessage (empty response,
\* a parsed value that is no object) carry no marker and are default.
C9_ErrorClassified ==
    (/\ ServiceDone
     /\ lang \in Languages
     /\ \/ last.kind = "rejected"
        \/ SendMessageBody(last.value).kind = "rejected")
    => LET class == IF last.kind = "rejected" /\ SafetyMarked(last.value)
                    THEN "safety"
                    ELSE "default"
       IN  /\ outcome.kind = "resolved"
           /\ outcome.value.summary = Str(<<"errorMap", class, lang>>)
           /\ outcome.value.recommendations = Arr(<<>>)

C9_Witness ==
    /\ ServiceDone
    /\ lang = "Hindi"
    /\ last.kind = "rejected"
    /\ last.value.message = <<"x", "BLOCKED">>
    /\ outcome.value.summary = Str(<<"errorMap", "safety", "Hindi">>)

\* C10: for a language without an entry in the error table, the summary of
\* the degraded result is the English string of the classified error type.
C10_FallsBackToEnglish ==
    (/\ ServiceDone
     /\ lang \notin Languages
     /\ last.kind = "rejected")
    => outcome.value.summary =
           Str(<<"errorMap",
                 IF SafetyMarked(last.value) THEN "safety" ELSE "default",
                 "English">>)

\* C17: across any sequence of sendMessage and getColdStart calls the
\* conversation handle is created at most once, on the first call; every
\* later call reuses that handle, and a handle once set is never reset to
\* null or replaced.
C17_HandleCreatedOnce ==
    /\ [](chat \in {0, 1} /\ (calls > 0 <=> chat # 0))
    /\ [][/\ chat # 0 => chat' = chat
          /\ chat' # chat => calls = 0 /\ calls' = 1]_vars

C17_Witness ==
    /\ entry = "sendMessage"
    /\ calls = 2
    /\ pc = "done"
    /\ chat = 1

\* C18: getMovieSynopsis never throws: when its one request fails in any
\* way, or returns an empty or white-space-only text, it returns the sentinel
\* "Synopsis unavailable."; it issues exactly one request and never retries.
C18_SynopsisNeverThrows ==
    entry = "getMovieSynopsis"
    => /\ pc \in {"idle", "synopsis", "done"}
       /\ Len(hist) <= 1
       /\ pc = "done"
          => /\ Len(hist) = 1
             /\ outcome.kind = "resolved"
             /\ outcome.value.t = "string"
             /\ (\/ last.kind = "rejected"
                 \/ \A i \in DOMAIN last.value.text : last.value.text[i] = " ")
                => outcome.value = Str(<<"Synopsis unavailable.">>)

C18_Witness ==
    /\ entry = "getMovieSynopsis"
    /\ pc = "done"
    /\ last.kind = "resolved"
    /\ last.value.text = <<" ", " ">>
    /\ outcome = Resolved(Str(<<"Synopsis unavailable.">>))

C18_WitnessFailure ==
    /\ entry = "getMovieSynopsis"
    /\ pc = "done"
    /\ last = Rejected([status |-> 503, message |-> <<"fetch failed", "SAFETY">>])
    /\ hist = <<503>>
    /\ outcome = Resolved(Str(<<"Synopsis unavailable.">>))

\* C25: getMovieSynopsis leaves the session state alone: no step of a
\* synopsis call creates or changes the conversation handle, so with any
\* number of synopsis calls among the sendMessage calls the handle is what the
\* sendMessage calls alone make it.
C25_SynopsisLeavesSession ==
    /\ [][(pc = "synopsis" \/ pc' = "synopsis") => chat' = chat /\ calls' = calls]_vars
    /\ [](entry = "getMovieSynopsis" => (chat # 0 <=> calls > 0))

C25_Witness ==
    /\ entry = "getMovieSynopsis"
    /\ pc = "done"
    /\ calls = 1
    /\ chat = 1

C25_WitnessNoHandle ==
    /\ entry = "getMovieSynopsis"
    /\ pc = "done"
    /\ calls = 0
    /\ chat = 0

\* C30: one getColdStart call invokes sendMessage exactly once: its outer
\* withRetry never waits and never invokes sendMessage again, so one cold
\* start issues at most maxRetries + 1 = 3 model requests.
C30_ColdStartSendsOnce ==
    (entry = "getColdStart" /\ pc # "idle")
    => /\ ort.calls = 1
       /\ ort.waits = <<>>
       /\ pc # "outerBackoff"
       /\ rt.calls <= 3

C30_Witness ==
    /\ entry = "getColdStart"
    /\ pc = "done"
    /\ last.kind = "rejected"
    /\ last.value.status = 503
    /\ rt.calls = 3
    /\ ort.calls = 1

(***************************************************************************)
(* Properties of the response pipeline, under SpecResponse.                *)
(***************************************************************************)
\* The model call succeeded with a non-empty text.
Answered == ServiceDone /\ last.kind = "resolved" /\ last.value.text # <<>>

\* A value with the required members of a RecommendationResult.
IsRecommendationResult(v) ==
    /\ v.t = "object"
    /\ v.summary.t = "string"
    /\ v.recommendations.t = "array"

YieldsResult(text) ==
    LET p == JSONParse(extractJSON(text))
    IN  p.ok /\ IsRecommendationResult(p.value)

\* The summary the fallback derives from a text c.
SummaryDerivedFrom(c) ==
    IF Len(c) <= 500 THEN c ELSE SubSeq(c, 1, 500) \o <<".", ".", ".">>

\* C11: whenever the model call succeeds with a non-empty text that does not
\* yield a RecommendationResult object, sendMessage returns the fallback built
\* from the text (summary derived from it, no recommendations), never the
\* localized error message.
C11_MalformedRecoveredLocally ==
    (Answered /\ ~YieldsResult(last.value.text))
    => /\ outcome.kind = "resolved"
       /\ outcome.value.summary = Str(SummaryDerivedFrom(extractJSON(last.value.text)))
       /\ outcome.value.summary \notin
              {errorMap[errorType][l] : errorType \in DOMAIN errorMap, l \in Languages}
       /\ outcome.value.recommendations = Arr(<<>>)

\* C12: on a parse failure the fallback summary is the extracted text itself
\* when that has at most 500 characters, and its first 500 characters followed
\* by "..." when it is longer (600 characters give 503 ending in "..."); the
\* fallback has no recommendations.
C12_FallbackSummaryTruncated ==
    (Answered /\ ~JSONParse(extractJSON(last.value.text)).ok)
    => LET c == extractJSON(last.value.text)
           summary == outcome.value.summary
       IN  /\ outcome.kind = "resolved"
           /\ summary.t = "string"
           /\ Len(c) <= 500 => summary.v = c
           /\ Len(c) > 500 => summary.v = SubSeq(c, 1, 500) \o <<".", ".", ".">>
           /\ Len(c) = 600 => /\ Len(summary.v) = 503
                              /\ SubSeq(summary.v, 501, 503) = <<".", ".", ".">>
           /\ outcome.value.recommendations = Arr(<<>>)

C12_Witness ==
    /\ Answered
    /\ Len(last.value.text) = 600
    /\ ~JSONParse(extractJSON(last.value.text)).ok
    /\ Len(outcome.value.summary.v) = 503

\* RecommendationResults, without their sources.
Results ==
    [summary : {Str(SummaryText), Str(<<>>)},
     clarifyingQuestions : {Undefined, Arr(<<"q">>)},
     recommendations : {Arr(RecommendationItems), Arr(<<>>)}]

\* The member tokens of the serialized form of R: an undefined member is left out.
MembersOf(R) ==
    {IF R.summary = Str(<<>>) THEN "S0" ELSE "S",
     IF R.recommendations = Arr(<<>>) THEN "R0" ELSE "R"}
        \cup (IF R.clarifyingQuestions = Undefined THEN {} ELSE {"Q"})

\* text is a serialized form of R: one object holding each member of R once,
\* in any order and with any white space, and possibly a sources member.
IsSerializationOf(text, R) ==
    LET u == SelectSeq(text, LAMBDA c : c # " ")
    IN  /\ Len(u) >= 2
        /\ u[1] = "{"
        /\ u[Len(u)] = "}"
        /\ \A i, k \in 2..(Len(u) - 1) : u[i] = u[k] => i = k
        /\ {u[i] : i \in 2..(Len(u) - 1)} \ {"Z"} = MembersOf(R)

\* C13: when the model's text is the serialized form of a RecommendationResult
\* R, sendMessage returns a result whose summary, clarifyingQuestions and
\* recommendations are those of R; the text {"summary":"Here you go",
\* "recommendations":[{"title":"X",..}]} gives the summary "Here you go" and
\* exactly one recommendation, titled X.
C13_SerializedResultRoundTrips ==
    (ServiceDone /\ last.kind = "resolved")
    => /\ \A R \in Results :
              IsSerializationOf(last.value.text, R)
              => /\ outcome.kind = "resolved"
                 /\ outcome.value.summary = R.summary
                 /\ outcome.value.clarifyingQuestions = R.clarifyingQuestions
                 /\ outcome.value.recommendations = R.recommendations
       /\ last.value.text = <<"{", "S", "R", "}">>
              => /\ outcome.value.summary = Str(<<"Here", "you", "go">>)
                 /\ outcome.value.recommendations = Arr(<<"X">>)

C13_Witness ==
    /\ ServiceDone
    /\ last.kind = "resolved"
    /\ last.value.text = <<"{", "Q", "R0", "S", "}">>
    /\ outcome.value.clarifyingQuestions = Arr(<<"q">>)
    /\ outcome.value.recommendations = Arr(<<>>)
    /\ outcome.value.summary = Str(<<"Here", "you", "go">>)

\* The positions of the chunks that have both a uri and a title.
Kept(chunks) == {i \in DOMAIN chunks : chunks[i].uri # "" /\ chunks[i].title # ""}

FirstAt(chunks, u) ==
    CHOOSE i \in Kept(chunks) :
        /\ chunks[i].uri = u
        /\ \A k \in Kept(chunks) : chunks[k].uri = u => i <= k

LastAt(chunks, u) ==
    CHOOSE i \in Kept(chunks) :
        /\ chunks[i].uri = u
        /\ \A k \in Kept(chunks) : chunks[k].uri = u => k <= i

\* out is the reference deduplication of chunks.
IsReferenceDedup(out, chunks) ==
    /\ {out[i].uri : i \in DOMAIN out} = {chunks[i].uri : i \in Kept(chunks)}
    /\ \A i, k \in DOMAIN out : out[i].uri = out[k].uri => i = k
    /\ \A i \in DOMAIN out : out[i].title = chunks[LastAt(chunks, out[i].uri)].title
    /\ \A i, k \in DOMAIN out :
           i < k => FirstAt(chunks, out[i].uri) < FirstAt(chunks, out[k].uri)

\* C14: the sources list sendMessage attaches is the reference deduplication
\* of the grounding chunks: chunks without a uri or a title are dropped, no
\* two entries share a uri, each uri carries the title of its last occurrence,
\* and the entries are in the order in which their uris first appeared;
\* [a/A1, b/B, a/A2] gives [a/A2, b/B].
C14_SourcesDeduplicated ==
    (Answered /\ outcome.kind = "resolved" /\ outcome.value.sources # Undefined)
    => /\ outcome.value.sources.t = "array"
       /\ IsReferenceDedup(outcome.value.sources.v, last.value.chunks)
       /\ last.value.chunks = <<[uri |-> "a", title |-> "A1"], [uri |-> "b", title |-> "B"],
                                [uri |-> "a", title |-> "A2"]>>
              => outcome.value.sources.v =
                     <<[uri |-> "a", title |-> "A2"], [uri |-> "b", title |-> "B"]>>

C14_Witness ==
    /\ Answered
    /\ last.value.chunks = <<[uri |-> "a", title |-> "A1"], [uri |-> "b", title |-> "B"],
                             [uri |-> "a", title |-> "A2"]>>
    /\ outcome.value.sources =
           Arr(<<[uri |-> "a", title |-> "A2"], [uri |-> "b", title |-> "B"]>>)

(***************************************************************************)
(* Properties of extractJSON, under SpecExtract.                           *)
(***************************************************************************)
Extracted == entry = "extractJSON" /\ pc = "done"

Least(S) == CHOOSE i \in S : \A k \in S : i <= k

Greatest(S) == CHOOSE i \in S : \A k \in S : k <= i

\* s without the white space around it.
Core(s) ==
    LET at == {i \in DOMAIN s : s[i] # " "}
    IN  IF at = {} THEN <<>> ELSE SubSeq(s, Least(at), Greatest(at))

Opens(s) == {i \in DOMAIN s : s[i] = "{"}

Closes(s) == {i \in DOMAIN s : s[i] = "}"}

\* Some "{" of s stands before some "}".
HasSpan(s) == \E o \in Opens(s), c \in Closes(s) : o < c

\* The text from the first "{" to the last "}" of s.
SpanOf(s) == SubSeq(s, Least(Opens(s)), Greatest(Closes(s)))

\* raw is a fenced code block: an opening fence, with or without the json
\* tag, and a closing fence at the end.
IsFenced(raw) ==
    LET t == Core(raw)
    IN  Len(t) >= 2 /\ t[1] = "F" /\ t[Len(t)] = "F"

\* The content between the fences of a fenced block.
InnerOf(raw) ==
    LET t == Core(raw)
    IN  SubSeq(t, IF Len(t) >= 3 /\ t[2] = "j" THEN 3 ELSE 2, Len(t) - 1)

\* C15 as stated: for every raw text wrapped in a fenced code block, with or
\* without a json tag, extractJSON returns exactly the inner content of the
\* block with both fences removed (read here up to the white space around
\* the content).
C15_FencedReturnsInner ==
    (Extracted /\ IsFenced(rawText)) => Core(extracted) = Core(InnerOf(rawText))

\* C15 amended: for every raw text wrapped in a fenced code block, with or
\* without a json tag, extractJSON returns the inner content's span from its
\* first "{" to its last "}" when a "{" stands before a "}" in it, and
\* exactly the inner content with both fences removed otherwise.
C15_FencedReturnsSpanOrInner ==
    (Extracted /\ IsFenced(rawText))
    => extracted = IF HasSpan(InnerOf(rawText))
                   THEN SpanOf(InnerOf(rawText))
                   ELSE InnerOf(rawText)

C15_Witness ==
    /\ Extracted
    /\ rawText = <<"F", "j", "{", "}", "F">>
    /\ extracted = <<"{", "}">>

\* raw after the trimming and the removal of a leading fence, its json tag
\* and, then, a trailing fence.
Remaining(raw) ==
    LET t == Core(raw)
        body == SubSeq(t, IF Len(t) >= 2 /\ t[2] = "j" THEN 3 ELSE 2, Len(t))
    IN  IF t = <<>> \/ t[1] # "F" THEN t
        ELSE IF body # <<>> /\ body[Len(body)] = "F"
             THEN SubSeq(body, 1, Len(body) - 1)
             ELSE body

\* C16: for every raw text with exactly one {...} span, whatever prose stands
\* before and after it, extractJSON returns exactly that span, braces
\* included; when no "{" stands before a later "}", it returns the remaining
\* text.
C16_SingleSpanExtracted ==
    Extracted
    => /\ (/\ Cardinality(Opens(rawText)) = 1
           /\ Cardinality(Closes(rawText)) = 1
           /\ HasSpan(rawText))
          => extracted = SpanOf(rawText)
       /\ ~HasSpan(rawText) => extracted = Remaining(rawText)

C16_Witness ==
    /\ Extracted
    /\ rawText = <<"x", "{", "x", "}", "x">>
    /\ extracted = <<"{", "x", "}">>

C16_WitnessNoSpan ==
    /\ Extracted
    /\ rawText = <<" ", "}", "x", "{">>
    /\ extracted = <<"}", "x", "{">>

(***************************************************************************)
(* Properties of historyService.addToHistory, under SpecHistory.           *)
(***************************************************************************)
\* The deduplication key of a query: trimmed and case-folded.
Key(q) == toLowerCase(Core(q))

NewestFirst(h) == \A i, k \in DOMAIN h : i < k => h[i].timestamp >= h[k].timestamp

C20_NoDuplicateQueries ==
    \A i, k \in DOMAIN history :
        Key(history[i].query) = Key(history[k].query) => i = k

(***************************************************************************)
(* Properties of the App, under Spec.                                      *)
(***************************************************************************)
\* C3: when the cold start's model call finally fails, initApp ends with
\* hasInitializationError = TRUE and isLoading = FALSE.
C3_ColdStartFailureShowsError ==
    (/\ caller = "initApp"
     /\ pc = "done"
     /\ last.kind = "rejected")
    => hasInitializationError /\ ~isLoading

\* C23: at most one sendMessage or getColdStart request is in flight at any
\* time: whatever the order of the UI events, a request is begun only when no
\* earlier one is still outstanding.
C23_OneRequestInFlight ==
    [][calls' # calls
       => \/ pc \in {"idle", "done"} /\ ~isLoading
          \/ pc = "outerBackoff"]_vars

C23_Witness ==
    /\ caller = "handleSend"
    /\ sends = 2
    /\ calls = 3
    /\ pc = "inflight"

\* C28: handleSend replaces the current recommendation set only when the
\* response carries a non-empty recommendations list; every other response
\* (greeting only, parse fallback, error) appends its message to the chat and
\* leaves the recommendation set as it was.
C28_RecommendationsKeptOnEmpty ==
    [][(caller = "handleSend" /\ pc = "inflight" /\ pc' = "done")
       => LET list == outcome'.value.recommendations
              nonEmpty == list.t = "array" /\ Len(list.v) > 0
          IN  /\ outcome'.kind = "resolved"
              /\ messages' = Append(messages, Message("model", outcome'.value))
              /\ nonEmpty => recommendations' = list
              /\ ~nonEmpty => recommendations' = recommendations]_vars

C28_Witness ==
    /\ caller = "handleSend"
    /\ pc = "done"
    /\ last.kind = "rejected"
    /\ outcome.value.recommendations = Arr(<<>>)
    /\ recommendations = Arr(<<"X">>)
    /\ Len(messages) = 3

\* C29: every handleSend and every initApp that set isLoading to true sets it
\* back to false, whether the request succeeds or fails, provided each model
\* call and each retry delay terminates.
C29_LoadingEnds == isLoading ~> ~isLoading

C29_Witness ==
    /\ caller = "handleSend"
    /\ pc = "done"
    /\ last.kind = "rejected"
    /\ rt.calls = 3
    /\ ~isLoading

(***************************************************************************)
(* Properties of the watchlist service, under SpecWatchlist.               *)
(***************************************************************************)
NoTwoSame(list) ==
    \A i, j \in DOMAIN list :
        (list[i].title = list[j].title /\ list[i].year = list[j].year) => i = j

\* C21: starting from an empty store, after any sequence of addToWatchlist
\* and removeFromWatchlist calls no user's watchlist holds two entries with
\* the same title and year; addToWatchlist of an item already present leaves
\* the stored list unchanged; and after removeFromWatchlist(m),
\* isInWatchlist(m) is false.
C21_WatchlistNoDuplicates ==
    /\ [](\A userId \in UserIds : NoTwoSame(getWatchlist(storage, userId)))
    /\ [][(/\ wcall'.op = "addToWatchlist"
           /\ isInWatchlist(storage, wcall'.movie, wcall'.userId))
          => storage' = storage]_vars
    /\ [](wcall.op = "removeFromWatchlist"
            => ~isInWatchlist(storage, wcall.movie, wcall.userId))

\* The other version of A (1999) was added to a list that holds A (1999), and
\* the list still holds the first one only, beside B.
C21_Witness ==
    /\ wcall.op = "addToWatchlist"
    /\ wcall.userId = Str(<<"u1">>)
    /\ wcall.movie.synopsis = Str(<<"x">>)
    /\ Len(getWatchlist(storage, wcall.userId)) = 2
    /\ getWatchlist(storage, wcall.userId)[1].title = <<"A">>
    /\ getWatchlist(storage, wcall.userId)[1].year = <<"1999">>
    /\ getWatchlist(storage, wcall.userId)[1].synopsis = Undefined

C21_WitnessRemoved ==
    /\ wcall.op = "removeFromWatchlist"
    /\ wcall.movie.title = <<"A">>
    /\ Len(getWatchlist(storage, wcall.userId)) = 2

(***************************************************************************)
(* Properties of displayMovies, under SpecDisplay.                         *)
(***************************************************************************)
HasLeadingInteger(mv) == parseInt(mv.year).t # "NaN"

UnknownYearsLast(list) ==
    \A i, j \in DOMAIN list :
        (i < j /\ HasLeadingInteger(list[j])) => HasLeadingInteger(list[i])

\* C22: an item whose year has no parseable leading integer is excluded by
\* every decade filter and is placed last by both year sort orders, newest
\* and oldest: in the displayed list it never stands before an item whose
\* year parses.
C22_UnparseableYearLast ==
    /\ filterDecade # "all"
         => \A i \in DOMAIN displayMovies : HasLeadingInteger(displayMovies[i])
    /\ sortBy \in {"newest", "oldest"} => UnknownYearsLast(displayMovies)

\* What holds of the code: the decade filters, and the order newest.
C22_UnparseableYearLastNewest ==
    /\ filterDecade # "all"
         => \A i \in DOMAIN displayMovies : HasLeadingInteger(displayMovies[i])
    /\ sortBy = "newest" => UnknownYearsLast(displayMovies)

(***************************************************************************)
(* Properties of the MovieCard, under SpecCard.                            *)
(***************************************************************************)
\* C24: a synopsis result that arrives after the card's title, year,
\* synopsis prop or language changed, or after the card was unmounted, is
\* discarded: the synopsis the card holds was never produced by a request of
\* an earlier run of the effect, only a request issued for the current props
\* may still change the card, and nothing changes an unmounted card.
C24_StaleSynopsisDiscarded ==
    /\ [](synopsis.of \in {0, effectRun})
    /\ [](\A req \in requests :
             req.active => /\ cardMounted
                           /\ req.run = effectRun
                           /\ req.title = movie.title
                           /\ req.year = movie.year
                           /\ req.language = language)
    /\ [][(~cardMounted /\ ~cardMounted')
          => synopsis' = synopsis /\ loadingSynopsis' = loadingSynopsis]_vars

\* The request of the first run settled after the card was unmounted: it is
\* gone and left the card as the unmount found it.
C24_Witness ==
    /\ ~cardMounted
    /\ effectRun = 1
    /\ requests = {}
    /\ loadingSynopsis
    /\ synopsis.of = 0

\* The result of the second run is shown while the request of the first run
\* is still outstanding.
C24_WitnessOverlap ==
    /\ cardMounted
    /\ effectRun = 2
    /\ synopsis.of = 2
    /\ \E req \in requests : req.run = 1

\* C26: whenever no synopsis request for the card's current props is
\* outstanding, loadingSynopsis is false.
C26_LoadingOnlyWhileRequested ==
    (cardMounted /\ loadingSynopsis) => \E req \in requests : req.run = effectRun

\* C27: while a user is signed in, a movie added through the card's watchlist
\* toggle is written under that user's key and is contained in the watchlist
\* the App then reloads, and the card's marker tells whether the movie is in
\* that user's list.
C27_ToggleUsesUserKey ==
    [][(user # Null /\ wcall' # wcall /\ wcall'.op = "addToWatchlist")
       => /\ wcall'.userId = uidOf(user)
          /\ SomeSame(watchlist', wcall'.movie)
          /\ inWatchlist' <=> isInWatchlist(storage', movie, uidOf(user))]_vars

====
